---- MODULE Spec2Model ----
(***************************************************************************)
(* hss3dump: the HSDS identifier codec (hsds_id.go, hsds_entity_type.go),  *)
(* the version resolver and the replication loop (main.go) and the         *)
(* filesystem storer (filesystem storer source), as state machines.        *)
(*                                                                         *)
(* Bytes and characters are their integer codes; a Go string or []byte is  *)
(* a sequence of codes; Go index j is TLA+ index j + 1.                    *)
(***************************************************************************)
EXTENDS Integers, Sequences, FiniteSets, TLC

VARIABLES
    \* identifier codec
    id,          \* the hsdsID under test: 17 bytes
    text,        \* the text handed to ParseID
    textSrc,     \* "none", "marshal" (MarshalText's output) or "input"
    marshalled,  \* result of id.MarshalText(): [done, out, err]
    parsed,      \* result of ParseID(text): [done, id, err]
    \* version resolver
    availableVersions, \* the []*hsdsVersion handed to versionBefore
    before,            \* the -b flag: "" (not given) or a timestamp
    notAfter,          \* the time.Time main hands to replicate
    selected,          \* result of versionBefore: [done, panic, ID]
    \* filesystem storer and replicate
    fs,          \* the filesystem: absolute clean path -> node
    domains,     \* replicate's domain list
    di,          \* index of the domain being processed
    pc,          \* replicate's position
    domain,      \* the loaded *hsdsDomain
    ovs,         \* the loaded version history
    objectVersions, \* path -> resolved version ID
    objects,     \* path -> fetched bytes
    stored,      \* the paths the loop over objects has stored
    err,         \* the error the last step reported
    calls        \* the collaborator operations performed, in order

codecVars == <<id, text, textSrc, marshalled, parsed>>
versionVars == <<availableVersions, before, notAfter, selected>>
runVars == <<fs, domains, di, pc, domain, ovs, objectVersions, objects, stored, err, calls>>
vars == <<id, text, textSrc, marshalled, parsed, availableVersions, before, notAfter, selected, fs, domains, di, pc, domain, ovs, objectVersions, objects, stored, err, calls>>

(***************************************************************************)
(* Errors.  A Go error value is a record; nil is the record of kind "nil". *)
(***************************************************************************)
nil == [kind |-> "nil"]

errInvalidHSDSID == [kind |-> "errInvalidHSDSID"]

unknownEntityTypeError(t) == [kind |-> "unknownEntityTypeError", Type |-> t]

\* (*unknownEntityTypeError).Is
unknownEntityTypeErrorIs(e, other) ==
    IF other.kind # "unknownEntityTypeError" THEN FALSE ELSE other.Type = e.Type

\* errors.Is(e, target): identity of the error value, else e's Is method.
\* Two &unknownEntityTypeError{} literals are distinct pointers, so only the
\* Is method can make them match; errInvalidHSDSID is one shared value.
errorsIs(e, target) ==
    IF e.kind = "unknownEntityTypeError"
    THEN unknownEntityTypeErrorIs(e, target)
    ELSE e = target

(***************************************************************************)
(* Entity types.                                                           *)
(***************************************************************************)
entityTypeGroup == 103

entityTypeDataset == 100

entityTypeCommittedType == 116

ValidAlwaysTrue(t) == TRUE

Valid(t) ==
    (t = entityTypeGroup \/ t = entityTypeDataset \/ t = entityTypeCommittedType)

(***************************************************************************)
(* encoding/hex as the codec uses it.                                      *)
(***************************************************************************)
Dash == 45

\* "0123456789abcdef"
hextable == <<48, 49, 50, 51, 52, 53, 54, 55, 56, 57, 97, 98, 99, 100, 101, 102>>

hexEncodeLowNibbleFirst(v) == <<hextable[(v % 16) + 1], hextable[(v \div 16) + 1]>>

\* hex.Encode of one byte: the two characters.
hexEncode(v) == <<hextable[(v \div 16) + 1], hextable[(v % 16) + 1]>>

\* fromHexChar: the digit's value, or -1 when the character is no hex digit.
fromHexChar(c) ==
    IF c >= 48 /\ c <= 57 THEN c - 48
    ELSE IF c >= 97 /\ c <= 102 THEN c - 97 + 10
    ELSE IF c >= 65 /\ c <= 70 THEN c - 65 + 10
    ELSE -1

\* hex.Decode of two characters: [ok, v].
hexDecode(c1, c2) ==
    IF fromHexChar(c1) < 0 \/ fromHexChar(c2) < 0
    THEN [ok |-> FALSE, v |-> 0]
    ELSE [ok |-> TRUE, v |-> fromHexChar(c1) * 16 + fromHexChar(c2)]

(***************************************************************************)
(* hsdsID.                                                                 *)
(***************************************************************************)
hsdsIDLen == 38

nilID == [i \in 1..17 |-> 0]

hsdsIDDashIndeces == <<1, 10, 19, 24, 31>>

hsdsByteIndices == <<2, 4, 6, 8, 11, 13, 15, 17, 20, 22, 25, 27, 29, 32, 34, 36>>

\* The character String() writes at Go index k of the text.
StringAt(idv, k) ==
    IF \E n \in 1..Len(hsdsIDDashIndeces) : hsdsIDDashIndeces[n] = k
    THEN Dash
    ELSE IF k = 0 THEN idv[1]
    ELSE LET i == CHOOSE n \in 1..Len(hsdsByteIndices) :
                      hsdsByteIndices[n] = k \/ hsdsByteIndices[n] + 1 = k
         IN  hexEncode(idv[i + 1])[k - hsdsByteIndices[i] + 1]

\* hsdsID.String: b[0] = id[0], every UUID byte hex-encoded at its index, then
\* the dashes written over the five dash indices.
String(idv) == [k \in 1..hsdsIDLen |-> StringAt(idv, k - 1)]

\* hsdsID.MarshalText
MarshalText(idv) ==
    IF ~Valid(idv[1])
    THEN [out |-> <<>>, err |-> unknownEntityTypeError(idv[1])]
    ELSE [out |-> String(idv), err |-> nil]

\* The decoding loop of UnmarshalText from its i-th iteration (i = 1..16),
\* idv being the receiver as written so far.
RECURSIVE decodeFrom(_, _, _)
decodeFrom(idv, b, i) ==
    IF i > Len(hsdsByteIndices) THEN [id |-> idv, err |-> nil]
    ELSE LET j == hsdsByteIndices[i]
             d == hexDecode(b[j + 1], b[j + 2])
         IN  IF ~d.ok THEN [id |-> idv, err |-> errInvalidHSDSID]
             ELSE decodeFrom([idv EXCEPT ![i + 1] = d.v], b, i + 1)

\* (*hsdsID).UnmarshalText on receiver idv: the receiver afterwards, and the error.
UnmarshalText(idv, b) ==
    IF Len(b) # hsdsIDLen THEN [id |-> idv, err |-> errInvalidHSDSID]
    ELSE IF ~Valid(b[1]) THEN [id |-> idv, err |-> unknownEntityTypeError(b[1])]
    ELSE decodeFrom([idv EXCEPT ![1] = b[1]], b, 1)

\* ParseID
ParseID(s) ==
    LET r == UnmarshalText(nilID, s)
    IN  IF r.err # nil THEN [id |-> nilID, err |-> r.err]
        ELSE [id |-> r.id, err |-> nil]

(***************************************************************************)
(* The codec exercised: MarshalText on an ID, then ParseID on a text that  *)
(* is either MarshalText's output or an input text.                        *)
(***************************************************************************)
\* The test suite's validGroupID.
validGroupID == <<103, 209, 42, 32, 165, 108, 39, 98, 47, 89, 162, 168, 45, 228, 175, 234, 167>>

\* Type bytes tried: g, d, t, the test suite's invalid 'x', '-', and 0.
SampleTypes == {103, 100, 116, 120, 45, 0}

\* UUID byte values tried.
SampleBytes == {0, 15, 167, 255}

\* Characters written into an input text: '-', '_', '0', 'F', 'g', 'x'.
SampleChars == {45, 95, 48, 70, 103, 120}

\* IDs tried: validGroupID with its type byte and one UUID byte replaced.
SampleIDs ==
    { [[validGroupID EXCEPT ![1] = t] EXCEPT ![p + 1] = v] :
        t \in SampleTypes, p \in 1..16, v \in SampleBytes }

\* Input texts tried for an ID: its 38 characters with one replaced, one
\* dropped or one added, and the empty text.
InputTexts(idv) ==
    LET s == String(idv)
    IN  { [s EXCEPT ![k] = c] : k \in 1..hsdsIDLen, c \in SampleChars }
          \cup { SubSeq(s, 1, hsdsIDLen - 1), Append(s, 48), <<>> }

notDone == [done |-> FALSE]

IdleCodec ==
    /\ id = nilID
    /\ text = <<>>
    /\ textSrc = "none"
    /\ marshalled = notDone
    /\ parsed = notDone

InitCodecVars ==
    /\ id \in SampleIDs
    /\ text = <<>>
    /\ textSrc = "none"
    /\ marshalled = notDone
    /\ parsed = notDone

DoMarshalText ==
    /\ ~marshalled.done
    /\ LET r == MarshalText(id)
       IN  marshalled' = [done |-> TRUE, out |-> r.out, err |-> r.err]
    /\ UNCHANGED <<id, text, textSrc, parsed>>
    /\ UNCHANGED versionVars
    /\ UNCHANGED runVars

\* The text ParseID gets is MarshalText's output.
FeedMarshalled ==
    /\ marshalled.done
    /\ marshalled.err = nil
    /\ textSrc = "none"
    /\ text' = marshalled.out
    /\ textSrc' = "marshal"
    /\ UNCHANGED <<id, marshalled, parsed>>
    /\ UNCHANGED versionVars
    /\ UNCHANGED runVars

\* The text ParseID gets is an input text.
FeedInput ==
    /\ marshalled.done
    /\ textSrc = "none"
    /\ text' \in InputTexts(id)
    /\ textSrc' = "input"
    /\ UNCHANGED <<id, marshalled, parsed>>
    /\ UNCHANGED versionVars
    /\ UNCHANGED runVars

DoParseID ==
    /\ textSrc # "none"
    /\ ~parsed.done
    /\ LET r == ParseID(text)
       IN  parsed' = [done |-> TRUE, id |-> r.id, err |-> r.err]
    /\ UNCHANGED <<id, text, textSrc, marshalled>>
    /\ UNCHANGED versionVars
    /\ UNCHANGED runVars

(***************************************************************************)
(* The version resolver.  A time.Time is its instant, an integer; the zero *)
(* value of time.Time is ZeroTime, and Local() does not change the instant.*)
(***************************************************************************)
ZeroTime == 0

\* Largest instant tried.
MaxTime == 3

\* Longest version list tried.
MaxVersions == 3

Times == ZeroTime..MaxTime

VersionIDs == 1..MaxVersions

IsZeroNever(t) == FALSE

\* time.Time.IsZero
IsZero(t) == t = ZeroTime

notAfterStrict(lm, na) == lm < na

\* The test of the scan: lm.Equal(notAfter) || lm.Before(notAfter)
notAfterTest(lm, na) == lm = na \/ lm < na

oldestFirstElement(av) == av[1].ID

\* The fallback after the scan: the last element's ID.
oldestVersion(av) == av[Len(av)].ID

\* The scan of versionBefore from its i-th element on.
RECURSIVE scanFrom(_, _, _)
scanFrom(av, na, i) ==
    IF i > Len(av) THEN oldestVersion(av)
    ELSE IF notAfterTest(av[i].LastModified, na) THEN av[i].ID
    ELSE scanFrom(av, na, i + 1)

\* versionBefore: the ID returned, or the panic.
\* versionBefore without its test for an empty list: an ID that is no
\* version's is returned.
versionBeforeNoCheck(av, na) ==
    IF Len(av) = 0 THEN [panic |-> FALSE, ID |-> 0]
    ELSE IF IsZero(na) THEN [panic |-> FALSE, ID |-> av[1].ID]
    ELSE [panic |-> FALSE, ID |-> scanFrom(av, na, 1)]

versionBefore(av, na) ==
    IF Len(av) = 0 THEN [panic |-> TRUE, ID |-> 0]
    ELSE IF IsZero(na) THEN [panic |-> FALSE, ID |-> av[1].ID]
    ELSE [panic |-> FALSE, ID |-> scanFrom(av, na, 1)]

\* The order LoadDomainVersions' sort.Slice leaves: no element is before a
\* later-modified one (elements of equal time stay in any order).
SortedNewestFirst(av) ==
    \A i \in 1..Len(av) : \A j \in 1..Len(av) :
        i < j => ~(av[j].LastModified > av[i].LastModified)

\* Version lists tried: up to MaxVersions versions with distinct IDs, sorted
\* newest first, and the empty list.
VersionLists ==
    UNION { { av \in [1..n -> [ID : VersionIDs, LastModified : Times]] :
                /\ \A i \in 1..n : \A j \in 1..n : i # j => av[i].ID # av[j].ID
                /\ SortedNewestFirst(av) } : n \in 0..MaxVersions }

\* The -b flag: not given, or an RFC3339 timestamp.
BeforeFlags == {[given |-> FALSE, t |-> ZeroTime]} \cup [given : {TRUE}, t : Times]

IdleVersion ==
    /\ availableVersions = <<>>
    /\ before = [given |-> FALSE, t |-> ZeroTime]
    /\ notAfter = ZeroTime
    /\ selected = [stage |-> "flags"]

InitVersionVars ==
    /\ availableVersions \in VersionLists
    /\ before \in BeforeFlags
    /\ notAfter = ZeroTime
    /\ selected = [stage |-> "flags"]

\* main: var t time.Time; if before != "" { t = ParseInLocation(before) }
MainParseBefore ==
    /\ selected.stage = "flags"
    /\ notAfter' = IF before.given THEN before.t ELSE ZeroTime
    /\ selected' = [stage |-> "parsed"]
    /\ UNCHANGED <<availableVersions, before>>
    /\ UNCHANGED codecVars
    /\ UNCHANGED runVars

DoVersionBefore ==
    /\ selected.stage = "parsed"
    /\ LET r == versionBefore(availableVersions, notAfter)
       IN  selected' = [stage |-> "done", panic |-> r.panic, ID |-> r.ID]
    /\ UNCHANGED <<availableVersions, before, notAfter>>
    /\ UNCHANGED codecVars
    /\ UNCHANGED runVars

(***************************************************************************)
(* Paths.  A path string is the sequence of its pieces between slashes:    *)
(* "" is <<"">>, "/" is <<"", "">>, "a/.." is <<"a", "..">>, "./" is       *)
(* <<".", "">>.  No piece tried holds the list separator ':'.              *)
(***************************************************************************)
\* Body applied to the value v: v is evaluated once, where a LET would
\* evaluate it at every use.
With(v, Body(_)) == CHOOSE out \in { Body(x) : x \in {v} } : TRUE

EmptyPath == <<"">>

Slash == <<"", "">>

Dot == <<".">>

DomainJSON == <<".domain.json">>

\* Whether the string starts with a slash.
IsRooted(p) == Len(p) >= 2 /\ p[1] = ""

\* filepath.Clean's pass over the pieces from the i-th on; out is the output
\* built so far (below a rooted path's leading slash).
RECURSIVE cleanFrom(_, _, _, _)
cleanFrom(p, i, out, rooted) ==
    IF i > Len(p) THEN out
    ELSE IF p[i] = "" \/ p[i] = "." THEN cleanFrom(p, i + 1, out, rooted)
    ELSE IF p[i] = ".."
         THEN IF Len(out) > 0 /\ out[Len(out)] # ".."
              THEN cleanFrom(p, i + 1, SubSeq(out, 1, Len(out) - 1), rooted)
              ELSE IF rooted THEN cleanFrom(p, i + 1, out, rooted)
              ELSE cleanFrom(p, i + 1, Append(out, ".."), rooted)
    ELSE cleanFrom(p, i + 1, Append(out, p[i]), rooted)

\* filepath.Clean
Clean(p) ==
    With(cleanFrom(p, 1, <<>>, IsRooted(p)), LAMBDA out :
        IF IsRooted(p) THEN (IF out = <<>> THEN Slash ELSE <<"">> \o out)
        ELSE IF out = <<>> THEN Dot ELSE out)

\* strings.Join(elems[i:], "/")
RECURSIVE concatFrom(_, _)
concatFrom(elems, i) ==
    IF i = Len(elems) THEN elems[i] ELSE elems[i] \o concatFrom(elems, i + 1)

\* filepath.Join: the elements from the first non-empty one on, joined with
\* slashes and cleaned; "" when all are empty.
Join(elems) ==
    LET nonEmpty == { i \in 1..Len(elems) : elems[i] # EmptyPath }
    IN  IF nonEmpty = {} THEN EmptyPath
        ELSE LET first == CHOOSE i \in nonEmpty : \A j \in nonEmpty : i <= j
             IN  Clean(concatFrom(elems, first))

\* filepath.Split: <<dir, file>>, dir keeping its trailing slash.
Split(p) ==
    IF Len(p) = 1 THEN <<EmptyPath, p>>
    ELSE <<Append(SubSeq(p, 1, Len(p) - 1), ""), <<p[Len(p)]>>>>

\* filepath.SplitList: the pieces of a ':'-separated list of paths.
SplitList(p) == IF p = EmptyPath THEN <<>> ELSE <<p>>

\* filepath.FromSlash: the separator is the slash.
FromSlash(p) == p

\* The directory holding a clean path.
Dir(p) == Clean(Split(p)[1])

pathError(p) == [kind |-> "pathError", path |-> p]

sanitizePathNoCheck(root, name) ==
    [path |-> Join(<<root, Join(<<Slash, FromSlash(name)>>)>>), err |-> nil]

sanitizePath(root, name) ==
    With(Join(<<Slash, FromSlash(name)>>), LAMBDA n :
        IF n = Slash THEN [path |-> EmptyPath, err |-> pathError(n)]
        ELSE [path |-> Join(<<root, n>>), err |-> nil])

(***************************************************************************)
(* The filesystem: a function from the clean absolute paths that exist to  *)
(* their nodes.  A fault names a kind of filesystem call that fails for a  *)
(* reason outside the model (permissions, a full disk).                    *)
(***************************************************************************)
dirNode == [kind |-> "dir"]

fileNode(d) == [kind |-> "file", data |-> d]

emptyData == [t |-> "empty"]

partialData == [t |-> "partial"]

jsonData(d) == [t |-> "json", v |-> d]

bytesData(b) == [t |-> "bytes", v |-> b]

ioError(op) == [kind |-> "io", op |-> op]

ErrExist == [kind |-> "ErrExist"]

Put(f, p, node) == [q \in (DOMAIN f) \cup {p} |-> IF q = p THEN node ELSE f[q]]

\* os.MkdirAll
RECURSIVE MkdirAll(_, _, _)
MkdirAll(f, p, fault) ==
    IF fault = "MkdirAll" THEN [fs |-> f, err |-> ioError("MkdirAll")]
    ELSE With(Clean(p), LAMBDA c :
        IF c \in DOMAIN f
        THEN IF f[c].kind = "dir" THEN [fs |-> f, err |-> nil]
             ELSE [fs |-> f, err |-> ioError("ENOTDIR")]
        ELSE With(MkdirAll(f, Dir(c), fault), LAMBDA r :
                 IF r.err # nil THEN r
                 ELSE [fs |-> Put(r.fs, c, dirNode), err |-> nil]))

\* os.OpenFile(name, O_CREATE|O_WRONLY|flag), flag being "EXCL" or "TRUNC";
\* failing stands for the fault named failing.
OpenFile(f, name, flag, fault, failing) ==
    IF fault = failing THEN [fs |-> f, err |-> ioError(failing)]
    ELSE With(Dir(name), LAMBDA dir :
        IF dir \notin DOMAIN f THEN [fs |-> f, err |-> ioError("ENOENT")]
        ELSE IF f[dir].kind # "dir" THEN [fs |-> f, err |-> ioError("ENOTDIR")]
        ELSE IF name \in DOMAIN f
        THEN IF flag = "EXCL" THEN [fs |-> f, err |-> ErrExist]
             ELSE IF f[name].kind = "dir" THEN [fs |-> f, err |-> ioError("EISDIR")]
             ELSE [fs |-> Put(f, name, fileNode(emptyData)), err |-> nil]
        ELSE [fs |-> Put(f, name, fileNode(emptyData)), err |-> nil])

\* openForWriting: the file's path too, for the writes that follow.
openForWriting(f, root, name, fault) ==
    With(sanitizePath(root, name), LAMBDA s :
        IF s.err # nil THEN [fs |-> f, err |-> s.err, path |-> EmptyPath]
        ELSE With(OpenFile(f, s.path, "TRUNC", fault, "OpenFile"), LAMBDA o :
                 [fs |-> o.fs, err |-> o.err, path |-> s.path]))

(***************************************************************************)
(* filesystemHSDSStorer.  An hsdsDomain is [Owner, ACLs, Root]; Root is    *)
(* NoRoot when the pointer is nil.  Each operation returns the filesystem  *)
(* it leaves and its error.                                                *)
(***************************************************************************)
NoRoot == "nil"

\* The domain of a nil *hsdsDomain.
NoDomain == [Owner |-> "", ACLs |-> "", Root |-> NoRoot]

\* parent := *domain; parent.Root = nil
parentOf(d) == [d EXCEPT !.Root = NoRoot]

\* Encode and Close on a file just opened: what the file holds afterwards,
\* and the error; encodeFault and closeFault name the faults that fail them.
writeAndClose(f, path, data, fault, encodeFault, closeFault) ==
    IF fault = encodeFault
    THEN [fs |-> Put(f, path, fileNode(partialData)), err |-> ioError(encodeFault)]
    ELSE IF fault = closeFault
    THEN [fs |-> Put(f, path, fileNode(data)), err |-> ioError(closeFault)]
    ELSE [fs |-> Put(f, path, fileNode(data)), err |-> nil]

\* The iteration with O_TRUNC in place of O_EXCL: a marker that exists is
\* written again.
markerStepOverwrite(f, dn, parent, fault) ==
    With(OpenFile(f, dn, "TRUNC", fault, "OpenMarker"), LAMBDA o :
        IF o.err # nil THEN [fs |-> f, err |-> o.err]
        ELSE writeAndClose(o.fs, dn, jsonData(parent), fault, "EncodeMarker", "CloseMarker"))

\* One iteration of the loop over parentDirs: a marker that exists is kept.
markerStep(f, dn, parent, fault) ==
    With(OpenFile(f, dn, "EXCL", fault, "OpenMarker"), LAMBDA o :
        IF o.err = ErrExist THEN [fs |-> f, err |-> nil]
        ELSE IF o.err # nil THEN [fs |-> f, err |-> o.err]
        ELSE writeAndClose(o.fs, dn, jsonData(parent), fault, "EncodeMarker", "CloseMarker"))

\* The loop over parentDirs from its i-th element, dn being the path built
\* by the iterations before.
RECURSIVE markersFrom(_, _, _, _, _, _)
markersFrom(f, dn, parentDirs, i, parent, fault) ==
    IF i > Len(parentDirs) THEN [fs |-> f, err |-> nil]
    ELSE With(Join(<<dn, parentDirs[i], DomainJSON>>), LAMBDA dn2 :
             With(markerStep(f, dn2, parent, fault), LAMBDA r :
                 IF r.err # nil THEN r
                 ELSE markersFrom(r.fs, dn2, parentDirs, i + 1, parent, fault)))

createParentDomains(f, root, name, d, fault) ==
    With(Clean(name), LAMBDA nm :
        IF nm = Dot THEN [fs |-> f, err |-> nil]
        ELSE With(sanitizePath(root, nm), LAMBDA s :
                 IF s.err # nil THEN [fs |-> f, err |-> s.err]
                 ELSE With(MkdirAll(f, s.path, fault), LAMBDA m :
                          IF m.err # nil THEN m
                          ELSE markersFrom(m.fs, root, SplitList(Split(nm)[1]), 1, parentOf(d), fault))))

\* StoreDomain.  The error of openForWriting is overwritten, not tested: the
\* encoder then writes to a nil io.WriteCloser, and the call panics.
StoreDomain(f, root, name, d, fault) ==
    With(createParentDomains(f, root, name, d, fault), LAMBDA c :
        IF c.err # nil THEN [fs |-> c.fs, err |-> c.err, panic |-> FALSE]
        ELSE With(openForWriting(c.fs, root, Join(<<name, DomainJSON>>), fault), LAMBDA o :
                 IF o.err # nil THEN [fs |-> o.fs, err |-> nil, panic |-> TRUE]
                 ELSE With(writeAndClose(o.fs, o.path, jsonData(d), fault, "Write", "Close"), LAMBDA w :
                          [fs |-> w.fs, err |-> w.err, panic |-> FALSE])))

StoreObject(f, root, name, data, fault) ==
    With(sanitizePath(root, name), LAMBDA s :
        IF s.err # nil THEN [fs |-> f, err |-> s.err, panic |-> FALSE]
        ELSE With(MkdirAll(f, Split(s.path)[1], fault), LAMBDA m :
                 IF m.err # nil THEN [fs |-> m.fs, err |-> m.err, panic |-> FALSE]
                 ELSE With(openForWriting(m.fs, root, name, fault), LAMBDA o :
                          IF o.err # nil THEN [fs |-> o.fs, err |-> o.err, panic |-> FALSE]
                          ELSE With(writeAndClose(o.fs, o.path, bytesData(data), fault, "Write", "Close"), LAMBDA w :
                                   [fs |-> w.fs, err |-> w.err, panic |-> FALSE]))))

(***************************************************************************)
(* The storer exercised: StoreDomain and StoreObject called with names,    *)
(* domains and faults from small sets, on the filesystem the calls before  *)
(* left.  calls holds the last call, with the filesystem it started from.  *)
(***************************************************************************)
\* Root of the storer.
Root == <<"", "r">>

\* Calls made in one run of the storer.
MaxStoreCalls == 2

\* ".", "", "/", "./", "a/..", "..", and paths of one to three pieces,
\* relative, rooted and starting with "..".
SampleNames ==
    { <<".">>, <<"">>, <<"", "">>, <<".", "">>, <<"a", "..">>, <<"..">>,
      <<"a">>, <<"a", "b">>, <<"a", "c">>, <<"a", "b", "c">>,
      <<"", "a", "b">>, <<"..", "a", "b">> }

SampleDomains ==
    { [Owner |-> "alice", ACLs |-> "alice:rw", Root |-> "g1"],
      [Owner |-> "bob", ACLs |-> "bob:r", Root |-> "g2"] }

SampleData == {1}

DomainFaults ==
    {"none", "MkdirAll", "OpenMarker", "EncodeMarker", "CloseMarker", "OpenFile", "Write", "Close"}

ObjectFaults == {"none", "MkdirAll", "OpenFile", "Write", "Close"}

\* The filesystem at the start: the root directory exists; a directory "/a"
\* beside it may exist.
BaseFS == [p \in {Slash, Root} |-> dirNode]

InitialFilesystems == {BaseFS, Put(BaseFS, <<"", "a">>, dirNode)}

IdleRun ==
    /\ fs = BaseFS
    /\ domains = <<>>
    /\ di = 0
    /\ pc = "idle"
    /\ domain = NoDomain
    /\ ovs = <<>>
    /\ objectVersions = <<>>
    /\ objects = <<>>
    /\ stored = {}
    /\ err = nil
    /\ calls = <<>>

InitStore ==
    /\ IdleCodec
    /\ IdleVersion
    /\ fs \in InitialFilesystems
    /\ domains = <<>>
    /\ di = 0
    /\ pc = "store"
    /\ domain = NoDomain
    /\ ovs = <<>>
    /\ objectVersions = <<>>
    /\ objects = <<>>
    /\ stored = {}
    /\ err = nil
    /\ calls = <<>>

StoreDomainCall ==
    /\ pc = "store"
    /\ di < MaxStoreCalls
    /\ \E name \in SampleNames, d \in SampleDomains, fault \in DomainFaults :
         \E r \in {StoreDomain(fs, Root, name, d, fault)} :
             /\ fs' = r.fs
             /\ err' = r.err
             /\ pc' = IF r.panic THEN "panicked" ELSE "store"
             /\ calls' = <<[op |-> "StoreDomain", name |-> name, arg |-> jsonData(d),
                            fault |-> fault, err |-> r.err, panic |-> r.panic, pre |-> fs]>>
    /\ di' = di + 1
    /\ UNCHANGED <<domains, domain, ovs, objectVersions, objects, stored>>
    /\ UNCHANGED codecVars
    /\ UNCHANGED versionVars

StoreObjectCall ==
    /\ pc = "store"
    /\ di < MaxStoreCalls
    /\ \E name \in SampleNames, data \in SampleData, fault \in ObjectFaults :
         \E r \in {StoreObject(fs, Root, name, data, fault)} :
             /\ fs' = r.fs
             /\ err' = r.err
             /\ pc' = IF r.panic THEN "panicked" ELSE "store"
             /\ calls' = <<[op |-> "StoreObject", name |-> name, arg |-> bytesData(data),
                            fault |-> fault, err |-> r.err, panic |-> r.panic, pre |-> fs]>>
    /\ di' = di + 1
    /\ UNCHANGED <<domains, domain, ovs, objectVersions, objects, stored>>
    /\ UNCHANGED codecVars
    /\ UNCHANGED versionVars

NextStore == StoreDomainCall \/ StoreObjectCall

SpecStore == InitStore /\ [][NextStore]_vars

(***************************************************************************)
(* The codec and the resolver as specifications of their own.              *)
(***************************************************************************)
InitCodec == InitCodecVars /\ IdleVersion /\ IdleRun

NextCodec == DoMarshalText \/ FeedMarshalled \/ FeedInput \/ DoParseID

SpecCodec == InitCodec /\ [][NextCodec]_vars

InitVersion == IdleCodec /\ InitVersionVars /\ IdleRun

NextVersion == MainParseBefore \/ DoVersionBefore

SpecVersion == InitVersion /\ [][NextVersion]_vars

(***************************************************************************)
(* The S3 bucket and s3HSDSDomainLoader.  The bucket's content is fixed:   *)
(* three domains with a root group ("a" and, below it, "a/x" and "a/y"),   *)
(* a folder domain "f" without one, and their objects' versions.  A load   *)
(* fault is a request that fails (network, access).                        *)
(***************************************************************************)
\* The bucket's .domain.json objects, by key.
BucketDomains ==
    [k \in { <<"a", "x", ".domain.json">>, <<"a", "y", ".domain.json">>,
             <<"a", ".domain.json">>, <<"f", ".domain.json">> } |->
        IF k = <<"a", "x", ".domain.json">>
        THEN [Owner |-> "alice", ACLs |-> "alice:rw", Root |-> "g1"]
        ELSE IF k = <<"a", "y", ".domain.json">>
        THEN [Owner |-> "bob", ACLs |-> "bob:r", Root |-> "g2"]
        ELSE IF k = <<"a", ".domain.json">>
        THEN [Owner |-> "carol", ACLs |-> "carol:rw", Root |-> "g3"]
        ELSE [Owner |-> "dave", ACLs |-> "dave:rw", Root |-> NoRoot]]

\* hsdsPrefix.String of a root ID's Prefix(): the text of its first 8 bytes.
PrefixText(root) ==
    IF root = "g1" THEN "p1" ELSE IF root = "g2" THEN "p2" ELSE "p3"

\* The bucket's object versions by key, in the order the listing gives them.
BucketVersions ==
    [k \in { <<"db", "p1", "o1">>, <<"db", "p1", "o2">>, <<"db", "p2", "o1">>,
             <<"db", "p3", "o1">> } |->
        IF k = <<"db", "p1", "o1">>
        THEN << [ID |-> 1, LastModified |-> 1], [ID |-> 2, LastModified |-> 2] >>
        ELSE IF k = <<"db", "p1", "o2">>
        THEN << [ID |-> 3, LastModified |-> 3] >>
        ELSE IF k = <<"db", "p2", "o1">>
        THEN << [ID |-> 2, LastModified |-> 3], [ID |-> 1, LastModified |-> 2] >>
        ELSE << [ID |-> 1, LastModified |-> 1] >>]

\* The bytes of one version of an object.
BucketObject(name, version) == [key |-> name, version |-> version]

s3Error(what) == [kind |-> "s3", what |-> what]

\* LoadDomain
LoadDomain(name, fault) ==
    IF fault # "none" THEN [domain |-> NoDomain, err |-> s3Error("request")]
    ELSE With(Join(<<name, DomainJSON>>), LAMBDA key :
        IF key \in DOMAIN BucketDomains
        THEN [domain |-> BucketDomains[key], err |-> nil]
        ELSE [domain |-> NoDomain, err |-> s3Error("NoSuchKey")])

\* hsdsDomain.DatabasePrefix, for a domain with a root.
DatabasePrefix(d) == <<"db", PrefixText(d.Root)>>

\* sort.Slice by LastModified.After: the list sorted newest first.
sortSlice(vv) ==
    With(CHOOSE f \in [1..Len(vv) -> 1..Len(vv)] :
             /\ \A i \in 1..Len(vv) : \A j \in 1..Len(vv) : i # j => f[i] # f[j]
             /\ SortedNewestFirst([i \in 1..Len(vv) |-> vv[f[i]]]),
         LAMBDA f : [i \in 1..Len(vv) |-> vv[f[i]]])

\* LoadDomainVersions.  DatabasePrefix dereferences domain.Root: for a
\* domain without a root that is a nil pointer, and the call panics.
LoadDomainVersions(d, fault) ==
    IF d.Root = NoRoot THEN [versions |-> <<>>, err |-> nil, panic |-> TRUE]
    ELSE IF fault # "none" THEN [versions |-> <<>>, err |-> s3Error("request"), panic |-> FALSE]
    ELSE With({ k \in DOMAIN BucketVersions : SubSeq(k, 1, 2) = DatabasePrefix(d) }, LAMBDA keys :
        [versions |-> [k \in keys |-> sortSlice(BucketVersions[k])], err |-> nil, panic |-> FALSE])

\* LoadObject with the version left out of the request: S3 returns the
\* newest version of the key.
LoadObjectLatest(name, version, fault) ==
    IF fault # "none" THEN [data |-> <<>>, err |-> s3Error("request")]
    ELSE [data |-> BucketObject(name, sortSlice(BucketVersions[name])[1].ID), err |-> nil]

\* LoadObject
LoadObject(name, version, fault) ==
    IF fault # "none" THEN [data |-> <<>>, err |-> s3Error("request")]
    ELSE IF \E i \in 1..Len(BucketVersions[name]) : BucketVersions[name][i].ID = version
    THEN [data |-> BucketObject(name, version), err |-> nil]
    ELSE [data |-> <<>>, err |-> s3Error("NoSuchVersion")]

(***************************************************************************)
(* replicate, one collaborator call a step.  The two loops over a Go map   *)
(* visit its keys in any order.                                            *)
(***************************************************************************)
\* Longest domain list tried.
MaxDomains == 3

\* The domain names given on the command line: the bucket's four domains
\* and one the bucket does not hold.
RequestNames == { <<"a", "x">>, <<"a", "y">>, <<"a">>, <<"f">>, <<"zz">> }

DomainLists ==
    UNION { { l \in [1..n -> RequestNames] :
                \A i \in 1..n : \A j \in 1..n : i # j => l[i] # l[j] } : n \in 1..MaxDomains }

LoadFaults == {"none", "request"}

dieAndRetry == "LoadDomain"

\* die: the diagnostic is printed and the process exits.
die == "failed"

Call(op, name, version, e, panicked) ==
    [op |-> op, name |-> name, version |-> version, err |-> e, panic |-> panicked, pre |-> fs]

\* The position after the body of the loop over domains.
nextDomain == IF di = Len(domains) THEN "done" ELSE "LoadDomain"

Init ==
    /\ IdleCodec
    /\ availableVersions = <<>>
    /\ selected = [stage |-> "flags"]
    /\ before \in BeforeFlags
    /\ notAfter = ZeroTime
    /\ fs \in InitialFilesystems
    /\ domains \in DomainLists
    /\ di = 0
    /\ pc = "main"
    /\ domain = NoDomain
    /\ ovs = <<>>
    /\ objectVersions = <<>>
    /\ objects = <<>>
    /\ stored = {}
    /\ err = nil
    /\ calls = <<>>

\* main: the cutoff is parsed and replicate is entered.
MainReplicate ==
    /\ pc = "main"
    /\ notAfter' = IF before.given THEN before.t ELSE ZeroTime
    /\ di' = 1
    /\ pc' = "LoadDomain"
    /\ UNCHANGED <<fs, domains, domain, ovs, objectVersions, objects, stored, err, calls>>
    /\ UNCHANGED <<availableVersions, before, selected>>
    /\ UNCHANGED codecVars

DoLoadDomain ==
    /\ pc = "LoadDomain"
    /\ \E fault \in LoadFaults : \E r \in {LoadDomain(domains[di], fault)} :
         /\ calls' = Append(calls, Call("LoadDomain", domains[di], 0, r.err, FALSE))
         /\ err' = r.err
         /\ domain' = r.domain
         /\ pc' = IF r.err # nil THEN die ELSE "LoadDomainVersions"
    /\ ovs' = <<>>
    /\ objectVersions' = <<>>
    /\ objects' = <<>>
    /\ stored' = {}
    /\ UNCHANGED <<fs, domains, di>>
    /\ UNCHANGED versionVars
    /\ UNCHANGED codecVars

\* LoadDomainVersions and, when it succeeds, the loop that resolves every
\* object's version with versionBefore.
DoLoadDomainVersions ==
    /\ pc = "LoadDomainVersions"
    /\ \E fault \in LoadFaults : \E r \in {LoadDomainVersions(domain, fault)} :
         /\ calls' = Append(calls, Call("LoadDomainVersions", domains[di], 0, r.err, r.panic))
         /\ err' = r.err
         /\ ovs' = r.versions
         /\ objectVersions' = [k \in DOMAIN r.versions |-> versionBefore(r.versions[k], notAfter).ID]
         /\ pc' = IF r.panic \/ \E k \in DOMAIN r.versions : versionBefore(r.versions[k], notAfter).panic
                  THEN "panicked"
                  ELSE IF r.err # nil THEN die
                  ELSE IF DOMAIN r.versions = {} THEN "StoreDomain"
                  ELSE "LoadObject"
    /\ UNCHANGED <<fs, domains, di, domain, objects, stored>>
    /\ UNCHANGED versionVars
    /\ UNCHANGED codecVars

DoLoadObject ==
    /\ pc = "LoadObject"
    /\ \E name \in (DOMAIN objectVersions) \ (DOMAIN objects) : \E fault \in LoadFaults :
         \E r \in {LoadObject(name, objectVersions[name], fault)} :
            /\ calls' = Append(calls, Call("LoadObject", name, objectVersions[name], r.err, FALSE))
            /\ err' = r.err
            /\ objects' = IF r.err # nil THEN objects ELSE Put(objects, name, r.data)
            /\ pc' = IF r.err # nil THEN die
                     ELSE IF (DOMAIN objectVersions) \ (DOMAIN objects) = {name} THEN "StoreDomain"
                     ELSE "LoadObject"
    /\ UNCHANGED <<fs, domains, di, domain, ovs, objectVersions, stored>>
    /\ UNCHANGED versionVars
    /\ UNCHANGED codecVars

\* StoreDomain moved before the loop that fetches the objects: the domain
\* is stored while objects are still to be loaded.
DoStoreDomainEarly ==
    /\ pc \in {"LoadObject", "StoreDomain"}
    /\ \E fault \in DomainFaults : \E r \in {StoreDomain(fs, Root, domains[di], domain, fault)} :
         /\ calls' = Append(calls, Call("StoreDomain", domains[di], 0, r.err, r.panic))
         /\ err' = r.err
         /\ fs' = r.fs
         /\ pc' = IF r.panic THEN "panicked"
                  ELSE IF r.err # nil THEN die
                  ELSE IF pc = "LoadObject" THEN "LoadObject"
                  ELSE IF DOMAIN objects = {} THEN nextDomain
                  ELSE "StoreObject"
         /\ di' = IF pc = "StoreDomain" /\ ~r.panic /\ r.err = nil /\ DOMAIN objects = {} /\ di < Len(domains)
                  THEN di + 1 ELSE di
    /\ UNCHANGED <<domains, domain, ovs, objectVersions, objects, stored>>
    /\ UNCHANGED versionVars
    /\ UNCHANGED codecVars

DoStoreDomain ==
    /\ pc = "StoreDomain"
    /\ \E fault \in DomainFaults : \E r \in {StoreDomain(fs, Root, domains[di], domain, fault)} :
         /\ calls' = Append(calls, Call("StoreDomain", domains[di], 0, r.err, r.panic))
         /\ err' = r.err
         /\ fs' = r.fs
         /\ pc' = IF r.panic THEN "panicked"
                  ELSE IF r.err # nil THEN die
                  ELSE IF DOMAIN objects = {} THEN nextDomain
                  ELSE "StoreObject"
         /\ di' = IF ~r.panic /\ r.err = nil /\ DOMAIN objects = {} /\ di < Len(domains)
                  THEN di + 1 ELSE di
    /\ UNCHANGED <<domains, domain, ovs, objectVersions, objects, stored>>
    /\ UNCHANGED versionVars
    /\ UNCHANGED codecVars

DoStoreObject ==
    /\ pc = "StoreObject"
    /\ \E name \in (DOMAIN objects) \ stored : \E fault \in ObjectFaults :
         \E r \in {StoreObject(fs, Root, name, objects[name], fault)} :
            /\ calls' = Append(calls, Call("StoreObject", name, objectVersions[name], r.err, r.panic))
            /\ err' = r.err
            /\ fs' = r.fs
            /\ stored' = stored \cup {name}
            /\ pc' = IF r.err # nil THEN die
                     ELSE IF (DOMAIN objects) \ stored = {name} THEN nextDomain
                     ELSE "StoreObject"
            /\ di' = IF r.err = nil /\ (DOMAIN objects) \ stored = {name} /\ di < Len(domains)
                     THEN di + 1 ELSE di
    /\ UNCHANGED <<domains, domain, ovs, objectVersions, objects>>
    /\ UNCHANGED versionVars
    /\ UNCHANGED codecVars

Next ==
    \/ MainReplicate
    \/ DoLoadDomain
    \/ DoLoadDomainVersions
    \/ DoLoadObject
    \/ DoStoreDomain
    \/ DoStoreObject

Spec == Init /\ [][Next]_vars

(***************************************************************************)
(* Properties of the identifier codec (SpecCodec).                         *)
(***************************************************************************)
ValidTypes == {103, 100, 116}

\* C1: round trip: for an ID whose type is g, d or t, MarshalText
\* succeeds, and ParseID on the text it returned succeeds and yields the
\* 17 bytes of the ID.
C1_RoundTrip ==
    /\ (marshalled.done /\ id[1] \in ValidTypes) => marshalled.err = nil
    /\ (textSrc = "marshal" /\ parsed.done) => (parsed.err = nil /\ parsed.id = id)

C1_Witness ==
    /\ textSrc = "marshal"
    /\ parsed.done
    /\ id[1] = 116
    /\ id[17] = 255
    /\ parsed.id = id

\* C2: dash rejection: a 38-character text whose first character is g, d
\* or t and that holds another character than '-' at one of the offsets 1,
\* 10, 19, 24, 31 is rejected with errInvalidHSDSID.
C2_DashRejection ==
    (/\ parsed.done
     /\ Len(text) = 38
     /\ text[1] \in ValidTypes
     /\ \E k \in {1, 10, 19, 24, 31} : text[k + 1] # 45)
        => parsed.err = errInvalidHSDSID

\* C3: unknown entity type: for a byte b other than g, d, t, MarshalText on
\* an ID of type b and UnmarshalText on a 38-character text starting with b
\* both fail with unknownEntityTypeError carrying b; the two errors match
\* under errors.Is, and match neither the error for another byte nor
\* errInvalidHSDSID.
C3_UnknownType ==
    /\ (marshalled.done /\ id[1] \notin ValidTypes)
          => marshalled.err = [kind |-> "unknownEntityTypeError", Type |-> id[1]]
    /\ (parsed.done /\ Len(text) = 38 /\ text[1] \notin ValidTypes)
          => /\ parsed.err = [kind |-> "unknownEntityTypeError", Type |-> text[1]]
             /\ parsed.id = nilID
    /\ (marshalled.done /\ parsed.done /\ Len(text) = 38
          /\ id[1] \notin ValidTypes /\ text[1] \notin ValidTypes)
          => /\ (text[1] = id[1]) <=> errorsIs(marshalled.err, parsed.err)
             /\ (text[1] = id[1]) <=> errorsIs(parsed.err, marshalled.err)
             /\ ~errorsIs(parsed.err, errInvalidHSDSID)
             /\ ~errorsIs(marshalled.err, errInvalidHSDSID)

C3_Witness ==
    /\ marshalled.done
    /\ parsed.done
    /\ id[1] = 120
    /\ Len(text) = 38
    /\ text[1] = 120
    /\ errorsIs(marshalled.err, parsed.err)

(***************************************************************************)
(* Properties of the version resolver (SpecVersion).  A cutoff is present  *)
(* for versionBefore when notAfter is not the zero time.                   *)
(***************************************************************************)
\* C4: with a present cutoff and a non-empty list sorted newest first that
\* holds a version modified at or before the cutoff, versionBefore returns
\* the ID of the first such version of the list.
C4_SelectWithCutoff ==
    (/\ selected.stage = "done"
     /\ Len(availableVersions) > 0
     /\ notAfter # ZeroTime
     /\ \E i \in 1..Len(availableVersions) : availableVersions[i].LastModified <= notAfter)
        => /\ ~selected.panic
           /\ \E i \in 1..Len(availableVersions) :
                /\ availableVersions[i].LastModified <= notAfter
                /\ \A j \in 1..(i - 1) : availableVersions[j].LastModified > notAfter
                /\ selected.ID = availableVersions[i].ID

C4_Witness ==
    /\ selected.stage = "done"
    /\ Len(availableVersions) = 3
    /\ availableVersions[1].LastModified > notAfter
    /\ availableVersions[2].LastModified = notAfter
    /\ availableVersions[3].LastModified < notAfter
    /\ selected.ID = availableVersions[2].ID

\* C5: with a present cutoff older than every version of a non-empty list,
\* versionBefore returns the ID of the last element; for every non-empty
\* list it returns the ID of an element of the list.
C5_Fallback ==
    /\ (/\ selected.stage = "done"
        /\ Len(availableVersions) > 0
        /\ notAfter # ZeroTime
        /\ \A i \in 1..Len(availableVersions) : availableVersions[i].LastModified > notAfter)
           => /\ ~selected.panic
              /\ selected.ID = availableVersions[Len(availableVersions)].ID
    /\ (selected.stage = "done" /\ Len(availableVersions) > 0)
           => /\ ~selected.panic
              /\ \E i \in 1..Len(availableVersions) : selected.ID = availableVersions[i].ID

C5_Witness ==
    /\ selected.stage = "done"
    /\ Len(availableVersions) = 3
    /\ notAfter # ZeroTime
    /\ \A i \in 1..3 : availableVersions[i].LastModified > notAfter
    /\ selected.ID = availableVersions[3].ID

\* C6: when no cutoff is given (no -b flag, so notAfter is the zero time),
\* versionBefore returns the ID of the first element of a non-empty list,
\* whatever the times of the elements.
C6_NoCutoff ==
    (/\ selected.stage = "done"
     /\ Len(availableVersions) > 0
     /\ (~before.given \/ notAfter = ZeroTime))
        => /\ ~selected.panic
           /\ selected.ID = availableVersions[1].ID

C6_Witness ==
    /\ selected.stage = "done"
    /\ ~before.given
    /\ Len(availableVersions) = 3
    /\ availableVersions[3].LastModified > ZeroTime
    /\ availableVersions[1].LastModified > availableVersions[3].LastModified
    /\ selected.ID = availableVersions[1].ID

(***************************************************************************)
(* Properties of the storer (SpecStore).                                   *)
(***************************************************************************)
\* ".", "", "/", "./", "a/..": the names that resolve to the root.
RootNames == { <<".">>, <<"">>, <<"", "">>, <<".", "">>, <<"a", "..">> }

RootDomainJSON == <<"", "r", ".domain.json">>

\* C7 as stated: StoreDomain and StoreObject fail with pathError, and
\* write nothing, when the name resolves to the root.
C7_RootRejected ==
    \A i \in 1..Len(calls) :
        calls[i].name \in RootNames
            => /\ calls[i].err.kind = "pathError"
               /\ ~calls[i].panic
               /\ fs = calls[i].pre

\* C7 as amended: StoreObject fails with pathError, and writes nothing, for
\* every name that resolves to the root; StoreDomain does so for "/" only:
\* for ".", "", "./" and "a/.." it reports no pathError and, unless
\* opening or writing the file fails, writes the domain's document to
\* .domain.json in the root directory.
C7_RootRejectedAmended ==
    \A i \in 1..Len(calls) :
        LET c == calls[i]
        IN  /\ (c.op = "StoreObject" /\ c.name \in RootNames)
                  => (c.err.kind = "pathError" /\ ~c.panic /\ fs = c.pre)
            /\ (c.op = "StoreDomain" /\ c.name = Slash)
                  => (c.err.kind = "pathError" /\ ~c.panic /\ fs = c.pre)
            /\ (c.op = "StoreDomain" /\ c.name \in RootNames \ {Slash})
                  => /\ c.err.kind # "pathError"
                     /\ c.fault \notin {"OpenFile", "Write", "Close"}
                          => /\ c.err = nil
                             /\ ~c.panic
                             /\ fs = Put(c.pre, RootDomainJSON, fileNode(c.arg))

C7_Witness ==
    /\ di = 2
    /\ calls[1].op = "StoreDomain"
    /\ calls[1].name = <<"a", "..">>
    /\ calls[1].err = nil
    /\ RootDomainJSON \notin DOMAIN calls[1].pre
    /\ RootDomainJSON \in DOMAIN fs

\* Names of two and three plain pieces.
PlainNames == { <<"a", "b">>, <<"a", "c">>, <<"a", "b", "c">> }

\* C8: after StoreDomain succeeds for a path of n >= 2 plain pieces,
\* every proper ancestor directory under the root holds a .domain.json; a
\* marker that did not exist before is the domain's metadata with Root
\* cleared, and one that existed is unchanged.
C8_AncestorMarkers ==
    \A i \in 1..Len(calls) :
        LET c == calls[i]
        IN  (c.op = "StoreDomain" /\ c.name \in PlainNames /\ c.err = nil /\ ~c.panic)
                => \A k \in 1..(Len(c.name) - 1) :
                     LET m == Root \o SubSeq(c.name, 1, k) \o DomainJSON
                     IN  /\ m \in DOMAIN fs
                         /\ m \in DOMAIN c.pre => fs[m] = c.pre[m]
                         /\ m \notin DOMAIN c.pre => fs[m] = fileNode(jsonData(parentOf(c.arg.v)))


(***************************************************************************)
(* Properties of replicate (Spec).  calls is the history of collaborator   *)
(* calls of the run, each with its result and the filesystem before it.    *)
(***************************************************************************)
\* C9: once a collaborator call of replicate (LoadDomain, LoadDomainVersions,
\* LoadObject, StoreDomain, StoreObject) has returned an error, no further
\* collaborator call is made, for the same domain or for a later one, and
\* the run is in the failed state: an error is only ever the result of the
\* last call of the history, and then the position is "failed".
C9_FirstErrorAborts ==
    /\ \A i \in 1..Len(calls) :
          calls[i].err # nil => i = Len(calls) /\ pc = "failed" /\ err = calls[i].err
    /\ pc = "failed" => Len(calls) > 0 /\ calls[Len(calls)].err # nil

\* A run that failed in StoreObject with objects of the domain still to be
\* stored and later domains still to be replicated.
C9_Witness ==
    /\ pc = "failed"
    /\ Len(calls) > 0
    /\ calls[Len(calls)].op = "StoreObject"
    /\ calls[Len(calls)].err # nil
    /\ (DOMAIN objects) \ stored # {}
    /\ di < Len(domains)

\* The orderings of a list of n domains.
Orderings(n) ==
    { f \in [1..n -> 1..n] : \A i \in 1..n : \A j \in 1..n : i # j => f[i] # f[j] }

\* The objects of a domain stored one after the other, without a fault.
RECURSIVE storeAll(_, _, _)
storeAll(f, names, data) ==
    IF names = {} THEN [fs |-> f, ok |-> TRUE]
    ELSE With(CHOOSE n \in names : TRUE, LAMBDA n :
             With(StoreObject(f, Root, n, data[n], "none"), LAMBDA r :
                 IF r.err # nil THEN [fs |-> r.fs, ok |-> FALSE]
                 ELSE storeAll(r.fs, names \ {n}, data)))

\* The body of replicate's loop for one domain, without a fault: the
\* filesystem it leaves, and whether it completed.
replicateOne(f, name, t) ==
    With(LoadDomain(name, "none"), LAMBDA ld :
        IF ld.err # nil THEN [fs |-> f, ok |-> FALSE]
        ELSE With(LoadDomainVersions(ld.domain, "none"), LAMBDA lv :
            IF lv.panic \/ lv.err # nil THEN [fs |-> f, ok |-> FALSE]
            ELSE With(StoreDomain(f, Root, name, ld.domain, "none"), LAMBDA sd :
                IF sd.panic \/ sd.err # nil THEN [fs |-> sd.fs, ok |-> FALSE]
                ELSE storeAll(sd.fs, DOMAIN lv.versions,
                              [k \in DOMAIN lv.versions |->
                                  LoadObject(k, versionBefore(lv.versions[k], t).ID, "none").data]))))

\* replicate over a list from its i-th domain, without a fault.
RECURSIVE replicateFrom(_, _, _, _)
replicateFrom(f, list, i, t) ==
    IF i > Len(list) THEN [fs |-> f, ok |-> TRUE]
    ELSE With(replicateOne(f, list[i], t), LAMBDA r :
             IF ~r.ok THEN r ELSE replicateFrom(r.fs, list, i + 1, t))

\* The run's domain list in another order, replicated from the filesystem
\* the run started with.
Reordered(o) ==
    replicateFrom(calls[1].pre, [i \in 1..Len(domains) |-> domains[o[i]]], 1, notAfter)

\* The target root holds nothing.
EmptyTarget(f) == \A q \in DOMAIN f : Len(q) > Len(Root) => SubSeq(q, 1, Len(Root)) # Root

\* The document of a requested domain, and the marker StoreDomain creates
\* above it.
documentPath(name) == Join(<<Root, name, DomainJSON>>)

markerPath(name) == Join(<<Root, Split(Clean(name))[1], DomainJSON>>)

\* The markers of the run that are not the document of a requested domain.
BareMarkers(list) ==
    { markerPath(list[i]) : i \in { j \in 1..Len(list) : Split(Clean(list[j]))[1] # EmptyPath } }
        \ { documentPath(list[i]) : i \in 1..Len(list) }

\* The first domain of a list whose marker is at q.
firstBelow(list, q) ==
    list[CHOOSE i \in 1..Len(list) :
            /\ markerPath(list[i]) = q
            /\ \A j \in 1..(i - 1) : markerPath(list[j]) # q]

\* What a bare marker holds: the first-listed domain below it, Root cleared.
markerOf(list, q) ==
    fileNode(jsonData(parentOf(LoadDomain(firstBelow(list, q), "none").domain)))

\* C10 as stated: a completed run into an empty target root leaves the
\* filesystem that every other ordering of its domain list leaves.
C10_OrderIndependent ==
    (pc = "done" /\ EmptyTarget(calls[1].pre)) =>
        \A o \in Orderings(Len(domains)) : Reordered(o) = [fs |-> fs, ok |-> TRUE]

\* C10, amended: every ordering of the domain list of a completed run into
\* an empty target root completes too and leaves the same paths, with the
\* same domain documents and object files; a marker that is not itself the
\* document of a requested domain holds the metadata, Root cleared, of the
\* domain listed first among those directly below it, in the run and in
\* the other ordering alike.
C10_OrderIndependentAmended ==
    (pc = "done" /\ EmptyTarget(calls[1].pre)) =>
        \A o \in Orderings(Len(domains)) :
            \E r \in {Reordered(o)} :
                /\ r.ok
                /\ DOMAIN r.fs = DOMAIN fs
                /\ BareMarkers(domains) \subseteq DOMAIN fs
                /\ \A q \in (DOMAIN fs) \ BareMarkers(domains) : r.fs[q] = fs[q]
                /\ \A q \in BareMarkers(domains) :
                      /\ fs[q] = markerOf(domains, q)
                      /\ r.fs[q] = markerOf([i \in 1..Len(domains) |-> domains[o[i]]], q)

\* A completed run of two domains below one directory that is not itself
\* requested, their owners and ACLs different.
C10_Witness ==
    /\ pc = "done"
    /\ EmptyTarget(calls[1].pre)
    /\ \E i \in 1..Len(domains) : \E j \in 1..Len(domains) :
          /\ i < j
          /\ markerPath(domains[i]) = markerPath(domains[j])
          /\ markerPath(domains[i]) \in BareMarkers(domains)
          /\ LoadDomain(domains[i], "none").domain.Owner # LoadDomain(domains[j], "none").domain.Owner
          /\ fs[markerPath(domains[i])] = markerOf(domains, markerPath(domains[i]))


(***************************************************************************)
(* The resolver on an empty history (SpecVersion).                         *)
(***************************************************************************)
\* C11: versionBefore called with an empty list returns no version ID, with
\* a cutoff or without one: it panics, and the panic is no error value (the
\* error of the run stays nil).
C11_EmptyHistoryPanics ==
    /\ \A t \in Times \cup {ZeroTime} : versionBefore(<<>>, t).panic
    /\ (selected.stage = "done" /\ availableVersions = <<>>) =>
          /\ selected.panic
          /\ selected.ID \notin VersionIDs
          /\ err = nil

\* versionBefore has been called with an empty list and a cutoff.
C11_Witness ==
    /\ selected.stage = "done"
    /\ availableVersions = <<>>
    /\ before.given
    /\ ~IsZero(notAfter)
    /\ selected.panic


(***************************************************************************)
(* Containment of the storer's writes (SpecStore).                         *)
(***************************************************************************)
\* The path lies strictly inside the root directory.
InsideRoot(q) == Len(q) > Len(Root) /\ SubSeq(q, 1, Len(Root)) = Root

\* The paths a call created or changed: calls holds the call, with the
\* filesystem it started from.
Written(c) == { q \in DOMAIN fs : q \notin DOMAIN c.pre \/ fs[q] # c.pre[q] }

\* C12: every directory and file that a StoreDomain or StoreObject call
\* creates or writes, for any name, lies strictly inside the root.
C12_Containment ==
    (pc \in {"store", "panicked"} /\ Len(calls) = 1) =>
        \A q \in Written(calls[1]) : InsideRoot(q)


(***************************************************************************)
(* Failures of the storer in replicate (Spec).                             *)
(***************************************************************************)
\* C13: a StoreDomain call that cannot persist the domain's document, the
\* case where the document cannot be opened for writing included, returns
\* an error to replicate, which fails with it: no StoreDomain call ends in
\* a panic.
C13_SinkErrorsSurfaced ==
    \A i \in 1..Len(calls) :
        calls[i].op = "StoreDomain" =>
            /\ ~calls[i].panic
            /\ calls[i].err # nil => pc = "failed"


(***************************************************************************)
(* What replicate fetches and stores for a domain (Spec).                  *)
(***************************************************************************)
\* The call that began the domain replicate handled last: its LoadDomain.
domainStart ==
    CHOOSE j \in 1..Len(calls) :
        /\ calls[j].op = "LoadDomain"
        /\ \A k \in (j + 1)..Len(calls) : calls[k].op # "LoadDomain"

\* replicate has completed the body of its loop for a domain: ovs,
\* objectVersions and objects are still that domain's.
domainCompleted == Len(calls) > 0 /\ pc \in {"LoadDomain", "done"}

\* The version versionBefore chooses for an object of the domain.
chosen(k) == versionBefore(ovs[k], notAfter).ID

\* C14: when replicate has completed a domain without error, exactly one
\* LoadObject call was made for every object path of the loaded version
\* history, with that path and the version ID versionBefore chose for the
\* cutoff; the file at that path under the root holds the bytes that fetch
\* returned; and no object outside the history was fetched or stored.
C14_ResolvedVersionStored ==
    domainCompleted =>
        /\ \A k \in DOMAIN ovs :
              /\ Cardinality({ j \in domainStart..Len(calls) :
                                  calls[j].op = "LoadObject" /\ calls[j].name = k }) = 1
              /\ \A j \in domainStart..Len(calls) :
                    (calls[j].op = "LoadObject" /\ calls[j].name = k) =>
                        calls[j].version = chosen(k) /\ calls[j].err = nil
              /\ k \in DOMAIN objects
              /\ objects[k] = BucketObject(k, chosen(k))
              /\ Join(<<Root, k>>) \in DOMAIN fs
              /\ fs[Join(<<Root, k>>)] = fileNode(bytesData(objects[k]))
        /\ \A j \in domainStart..Len(calls) :
              calls[j].op \in {"LoadObject", "StoreObject"} => calls[j].name \in DOMAIN ovs

\* A completed domain with an object whose chosen version is not its
\* newest, stored under the root.
C14_Witness ==
    /\ domainCompleted
    /\ \E k \in DOMAIN ovs :
          /\ Len(ovs[k]) > 1
          /\ chosen(k) # ovs[k][1].ID
          /\ Join(<<Root, k>>) \in DOMAIN fs
          /\ fs[Join(<<Root, k>>)] = fileNode(bytesData(BucketObject(k, chosen(k))))


(***************************************************************************)
(* The order of fetches and writes within a domain (Spec).                 *)
(***************************************************************************)
LoadOps == {"LoadDomain", "LoadDomainVersions", "LoadObject"}

StoreOps == {"StoreDomain", "StoreObject"}

\* C15: within a domain every LoadObject call comes before the first
\* StoreDomain or StoreObject call, and when the run ends in one of the
\* domain's load calls (LoadDomain, LoadDomainVersions, LoadObject) the
\* filesystem is the one the domains before it left: nothing was written
\* for the domain.
C15_FetchBeforeWrite ==
    Len(calls) > 0 =>
        /\ \A i \in domainStart..Len(calls) : \A j \in domainStart..Len(calls) :
              (calls[i].op \in LoadOps /\ calls[j].op \in StoreOps) => i < j
        /\ (pc \in {"failed", "panicked"} /\ calls[Len(calls)].op \in LoadOps) =>
              fs = calls[domainStart].pre

\* The run failed fetching an object of its second domain, after the first
\* domain was written: the filesystem is what the first domain left.
C15_Witness ==
    /\ pc = "failed"
    /\ Len(calls) > 0
    /\ calls[Len(calls)].op = "LoadObject"
    /\ calls[Len(calls)].err # nil
    /\ di = 2
    /\ fs # calls[1].pre
    /\ fs = calls[domainStart].pre

====
